---- MODULE Spec2Model ----
(***************************************************************************)
(* A model of the three jobs of the repository:                            *)
(*   - the Incremental Sync Job  (dynamodb-neptune-sync.py),               *)
(*   - the Bulk Load Job         (load-neptune-from-ddb-products.py),      *)
(*   - the Export Job            (sync_ddb_products.py).                   *)
(* One invocation of one job is one behaviour; Init picks the job and its  *)
(* inputs.  The graph store is Amazon Neptune (the endpoint both Lambda    *)
(* functions connect to), whose property step without an explicit          *)
(* cardinality adds a value to the property's value set.                   *)
(***************************************************************************)
EXTENDS Integers, Sequences, FiniteSets, TLC

VARIABLES
    job,                  \* which script runs: "sync", "bulk" or "export"
    pc,                   \* position of the running script
    graph,                \* the graph store: [V: id -> vertex, E: sequence of edges]
    records,              \* sync: event.Records, the batch of change events
    idx,                  \* sync: index of the next record of the batch
    table,                \* bulk/export: the source table, a sequence of scan pages
    df_products,          \* bulk: the scanned rows (unused columns dropped)
    df_categories,        \* bulk: sequence of [category, category_id]
    df_styles,            \* bulk: sequence of [style, style_id]
    pos,                  \* bulk: row index of the running loop
    argv,                 \* export: sys.argv[1:]
    products_table_name,  \* export: the variable of that name (Unbound until assigned)
    products_file,        \* export: the output file's path
    new_yaml,             \* export: the entries dumped to the output file
    stdout,               \* export: what was printed
    exit_status           \* export: the process's exit status (-1 while running)

vars == <<job, pc, graph, records, idx, table, df_products, df_categories,
          df_styles, pos, argv, products_table_name, products_file, new_yaml,
          stdout, exit_status>>

sync_vars   == <<records, idx>>
bulk_vars   == <<df_products, df_categories, df_styles, pos>>
export_vars == <<argv, products_table_name, products_file, new_yaml, stdout, exit_status>>

(***************************************************************************)
(* Bounds of the model.                                                    *)
(***************************************************************************)
MaxBatch == 3        \* longest batch of change events
MaxItems == 3        \* most records in the source table
MaxArgs  == 2        \* most command-line options of the export script

Unbound == "<unbound>"

Range(s) == {s[i] : i \in 1..Len(s)}

(***************************************************************************)
(* The graph store.                                                        *)
(***************************************************************************)
EmptyGraph == [V |-> <<>>, E |-> <<>>]

LabelsKey == "labels_confidence_gt_75"

\* g.addV(label).property(T.id, id): a new vertex without properties.
addV(g, label, id) ==
    [g EXCEPT !.V = (id :> [label |-> label, props |-> <<>>]) @@ g.V]

\* .property(key, value) on vertex id, no cardinality given: Neptune's default
\* is set, the value joins the values the property already holds.  Both label
\* loops build the multi-valued labels_confidence_gt_75 by repeating this call
\* ("Updating items, to add Labels array"), and the scalar properties are set
\* with the very same call.
property(g, id, key, value) ==
    LET v == g.V[id]
        old == IF key \in DOMAIN v.props THEN v.props[key] ELSE {}
        props == [k \in DOMAIN v.props \cup {key} |->
                     IF k = key THEN old \cup {value} ELSE v.props[k]]
    IN  [g EXCEPT !.V[id].props = props]

\* g.V(out).addE(label).to(__.V(in))
addE(g, out, label, in) ==
    [g EXCEPT !.E = Append(g.E, [out |-> out, label |-> label, in |-> in])]

\* The values of a property of a vertex (none when the property is absent).
Values(g, id, key) ==
    IF id \in DOMAIN g.V /\ key \in DOMAIN g.V[id].props
    THEN g.V[id].props[key] ELSE {}

(***************************************************************************)
(* str.lower() on the label names the model uses.                          *)
(***************************************************************************)
LabelNames == {"Shoe", "RED", "shoe", "Nike"}

lower(name) ==
    CASE name = "Shoe" -> "shoe"
      [] name = "RED"  -> "red"
      [] name = "shoe" -> "shoe"
      [] name = "Nike" -> "nike"

(***************************************************************************)
(* Product rows.  A row is a function from column names to values.         *)
(***************************************************************************)
\* The nine scalar properties: <<property key, row column>>, in code order.
ScalarProps ==
    << <<"product_name", "name">>,
       <<"current_stock", "current_stock">>,
       <<"style", "style">>,
       <<"gender_affinity", "gender_affinity">>,
       <<"image", "image">>,
       <<"category", "category">>,
       <<"description", "description">>,
       <<"price", "price">>,
       <<"featured", "featured">> >>

UnusedColumns == {"sk", "url", "aliases"}

Label(name, confidence) == [name |-> name, confidence |-> confidence]

LabelsA == << Label("Shoe", 80), Label("RED", 50) >>
LabelsB == << Label("RED", 76), Label("Shoe", 75) >>
LabelsC == << Label("Nike", 90) >>

RowA(id) ==
    [id |-> id, name |-> "Trail Shoe", current_stock |-> "10", style |-> "running",
     gender_affinity |-> "F", image |-> "a.jpg", category |-> "shoes",
     description |-> "A shoe", price |-> "9.99", featured |-> "true",
     image_labels |-> LabelsA, sk |-> "", url |-> "/a", aliases |-> "a"]

RowB(id) ==
    [id |-> id, name |-> "Road Shoe", current_stock |-> "7", style |-> "bags",
     gender_affinity |-> "M", image |-> "b.jpg", category |-> "bags",
     description |-> "Another", price |-> "19.5", featured |-> "false",
     image_labels |-> LabelsB, sk |-> "", url |-> "/b", aliases |-> "b"]

\* Row B with the stock of row A and other labels: a modify that changes some columns.
RowC(id) == [RowB(id) EXCEPT !.current_stock = "10", !.image_labels = LabelsC]

\* A payload without the sk column.
RowNoSk(id) ==
    LET r == RowA(id) IN [c \in DOMAIN r \ {"sk"} |-> r[c]]

ProductIds == {"p1", "p2"}

(***************************************************************************)
(* Incremental Sync Job: dynamodb-neptune-sync.py                          *)
(***************************************************************************)
\* drop_vertex builds the traversal g.V(vertex_id).drop() and never runs it
\* (no terminal step): the graph is left as it is.
drop_vertex(g, vertex_id) == g

\* The chain of .property(key, row[column]) steps from the k-th on.
RECURSIVE properties(_, _, _, _)
properties(g, id, row, k) ==
    IF k > Len(ScalarProps) THEN g
    ELSE properties(property(g, id, ScalarProps[k][1], row[ScalarProps[k][2]]),
                    id, row, k + 1)

\* Only labels with confidence over 75 become values of the vertex property.
RECURSIVE labels_from(_, _, _, _)
labels_from(g, vertex_id, image_labels, k) ==
    IF k > Len(image_labels) THEN g
    ELSE LET prop_label == image_labels[k] IN
         labels_from(IF prop_label.confidence > 75
                     THEN property(g, vertex_id, LabelsKey, lower(prop_label.name))
                     ELSE g,
                     vertex_id, image_labels, k + 1)

update_image_labels_ge(g, vertex_id, image_labels) ==
    LET RECURSIVE loop(_, _)
        loop(h, k) ==
            IF k > Len(image_labels) THEN h
            ELSE loop(IF image_labels[k].confidence >= 75
                      THEN property(h, vertex_id, LabelsKey, lower(image_labels[k].name))
                      ELSE h, k + 1)
    IN  loop(g, 1)

update_image_labels(g, vertex_id, image_labels) ==
    labels_from(g, vertex_id, image_labels, 1)

\* g.V(row['id']).property(...)...next() raises StopIteration without a vertex.
update_vertex_fails(g, row) == row.id \notin DOMAIN g.V

update_vertex_clearing(g, row) ==
    LET h == properties(g, row.id, row, 1)
        cleared == [h EXCEPT !.V[row.id].props =
                       [k \in DOMAIN @ \ {LabelsKey} |-> @[k]]]
    IN  update_image_labels(cleared, row.id, row.image_labels)

update_vertex(g, row) ==
    update_image_labels(properties(g, row.id, row, 1), row.id, row.image_labels)

\* g.addV('product').property(T.id, row['id']) is rejected for an identifier in use.
add_vertex_fails(g, row) == row.id \in DOMAIN g.V

add_vertex(g, row) ==
    update_image_labels(properties(addV(g, "product", row.id), row.id, row, 1),
                        row.id, row.image_labels)

\* res.drop(['sk', 'url', 'aliases'], axis=1) raises KeyError for a missing column.
format_row_fails(row) == ~(UnusedColumns \subseteq DOMAIN row)

format_row(row) == [c \in DOMAIN row \ UnusedColumns |-> row[c]]

\* The change events of the model.
Events ==
    {[eventName |-> "REMOVE", dynamodb |-> [id |-> id]] : id \in ProductIds}
    \cup
    {[eventName |-> n, dynamodb |-> r] :
        n \in {"INSERT", "MODIFY"},
        r \in UNION {{RowA(id), RowB(id), RowC(id), RowNoSk(id)} : id \in ProductIds}}

Batches == UNION {[1..n -> Events] : n \in 0..MaxBatch}

\* Whether handling the record raises.
record_fails(g, record) ==
    CASE record.eventName = "INSERT" ->
            format_row_fails(record.dynamodb)
            \/ add_vertex_fails(g, format_row(record.dynamodb))
      [] record.eventName = "MODIFY" ->
            format_row_fails(record.dynamodb)
            \/ update_vertex_fails(g, format_row(record.dynamodb))
      [] OTHER -> FALSE

\* The body of the loop over event.Records.
handle_record(g, record) ==
    CASE record.eventName = "INSERT" -> add_vertex(g, format_row(record.dynamodb))
      [] record.eventName = "MODIFY" -> update_vertex(g, format_row(record.dynamodb))
      [] record.eventName = "REMOVE" -> drop_vertex(g, record.dynamodb.id)
      [] OTHER -> g

\* An exception leaves lambda_handler: nothing catches it, the loop ends.
RaiseSwallowed == /\ idx' = idx + 1
                  /\ UNCHANGED <<graph, pc>>

Raise == /\ pc' = "failed"
         /\ UNCHANGED <<graph, idx>>

SyncInit ==
    /\ job = "sync"
    /\ pc = "loop"
    /\ graph = EmptyGraph
    /\ records \in Batches
    /\ idx = 1
    /\ table = <<>>
    /\ df_products = <<>> /\ df_categories = <<>> /\ df_styles = <<>> /\ pos = 0
    /\ argv = <<>> /\ products_table_name = Unbound /\ products_file = Unbound
    /\ new_yaml = <<>> /\ stdout = <<>> /\ exit_status = -1

SyncRecord ==
    /\ job = "sync" /\ pc = "loop" /\ idx <= Len(records)
    /\ IF record_fails(graph, records[idx])
       THEN Raise
       ELSE /\ graph' = handle_record(graph, records[idx])
            /\ idx' = idx + 1
            /\ UNCHANGED pc
    /\ UNCHANGED <<job, records, table>>
    /\ UNCHANGED bulk_vars
    /\ UNCHANGED export_vars

SyncClose ==
    /\ job = "sync" /\ pc = "loop" /\ idx > Len(records)
    /\ pc' = "closed"
    /\ UNCHANGED <<job, graph, records, idx, table>>
    /\ UNCHANGED bulk_vars
    /\ UNCHANGED export_vars

(***************************************************************************)
(* Source table and its scan.  A scan call returns one page; a further     *)
(* page is indicated by LastEvaluatedKey in the response.                  *)
(***************************************************************************)
\* ddb_table.scan(): the first page only, the call is made once with no start key.
scan(t) ==
    [Items |-> IF t = <<>> THEN <<>> ELSE t[1],
     LastEvaluatedKey |-> Len(t) > 1]

\* Every record of the table, over all its pages.
RECURSIVE AllRecords(_)
AllRecords(t) == IF t = <<>> THEN <<>> ELSE t[1] \o AllRecords(Tail(t))

\* The ways to lay rows out in at most two non-empty pages.
Paginations(rows) ==
    IF rows = <<>> THEN {<<>>}
    ELSE {<<rows>>} \cup
         {<<SubSeq(rows, 1, k), SubSeq(rows, k + 1, Len(rows))>> : k \in 1..(Len(rows) - 1)}

\* Sequences of at most MaxItems items with pairwise distinct id.
DistinctSeqs(items) ==
    {s \in UNION {[1..n -> items] : n \in 0..MaxItems} :
        \A i, j \in 1..Len(s) : i # j => s[i].id # s[j].id}

Tables(items) == UNION {Paginations(rows) : rows \in DistinctSeqs(items)}

(***************************************************************************)
(* Bulk Load Job: load-neptune-from-ddb-products.py                        *)
(***************************************************************************)
BulkIds    == {"p1", "p2", "p3"}
Categories == {"shoes", "bags"}
Styles     == {"running", "bags"}

BulkItems ==
    {[RowA(id) EXCEPT !.category = c, !.style = s, !.image_labels = l] :
        id \in BulkIds, c \in Categories, s \in Styles, l \in {LabelsA, LabelsB}}

\* uuid.uuid4(): the n-th identifier generated, distinct from all others.
UuidPool == <<"uuid-1", "uuid-2", "uuid-3", "uuid-4", "uuid-5", "uuid-6",
              "uuid-7", "uuid-8", "uuid-9", "uuid-10", "uuid-11", "uuid-12">>
uuid4(n) == UuidPool[n]

\* df[[columns]]
select(df, columns) == [i \in 1..Len(df) |-> [c \in columns |-> df[i][c]]]

\* df.drop_duplicates(subset=...): the first row of every distinct key is kept.
keep_all(df, subset) == df

RECURSIVE drop_duplicates_from(_, _, _, _)
drop_duplicates_from(df, subset, k, kept) ==
    IF k > Len(df) THEN kept
    ELSE LET key(r) == [c \in subset |-> r[c]] IN
         drop_duplicates_from(df, subset, k + 1,
             IF \E j \in 1..Len(kept) : key(kept[j]) = key(df[k])
             THEN kept ELSE Append(kept, df[k]))

drop_duplicates(df, subset) == drop_duplicates_from(df, subset, 1, <<>>)

\* df[new_column] = [uuid.uuid4() for _ in range(len(df.index))], from the n-th uuid on
with_ids(df, new_column, n) ==
    [i \in 1..Len(df) |-> (new_column :> uuid4(n + i)) @@ df[i]]

\* pd.merge(left, right, on=on, how='inner'): a row per matching pair, in left's order.
RECURSIVE merge_from(_, _, _, _)
merge_from(left, right, on, k) ==
    IF k > Len(left) THEN <<>>
    ELSE LET matches == SelectSeq(right, LAMBDA r : r[on] = left[k][on])
         IN  [j \in 1..Len(matches) |-> matches[j] @@ left[k]]
             \o merge_from(left, right, on, k + 1)

merge(left, right, on) == merge_from(left, right, on, 1)

df_with_cat_and_style_ids ==
    merge(merge(df_products, df_categories, "category"), df_styles, "style")

df_edges_category_style ==
    drop_duplicates(select(df_with_cat_and_style_ids, {"category_id", "style_id"}),
                    {"category_id", "style_id"})

df_edges_styles_products ==
    drop_duplicates(select(df_with_cat_and_style_ids, {"style_id", "id"}),
                    {"style_id", "id"})

\* Step 1 of the load, for one row: the product vertex and its nine properties ...
RECURSIVE product_properties(_, _, _, _)
product_properties(g, id, row, k) ==
    IF k > Len(ScalarProps) THEN g
    ELSE product_properties(property(g, id, ScalarProps[k][1], row[ScalarProps[k][2]]),
                            id, row, k + 1)

\* ... then the labels of the row with confidence over 75.
RECURSIVE product_labels(_, _, _, _)
product_labels(g, vertex_insert, image_labels, k) ==
    IF k > Len(image_labels) THEN g
    ELSE LET prop_label == image_labels[k] IN
         product_labels(IF prop_label.confidence > 75
                        THEN property(g, vertex_insert, LabelsKey, lower(prop_label.name))
                        ELSE g,
                        vertex_insert, image_labels, k + 1)

insert_product(g, row) ==
    product_labels(product_properties(addV(g, "product", row.id), row.id, row, 1),
                   row.id, row.image_labels, 1)

\* Steps 2 and 3: a vertex labelled kind::value with the generated id and a name.
insert_named(g, kind, value, id) ==
    property(addV(g, kind \o "::" \o value, id), id, "name", value)

\* The loop variable moves on, or the next phase starts.
Advance(len, next_pc) ==
    IF pos < len THEN pos' = pos + 1 /\ pc' = pc
                 ELSE pos' = 1 /\ pc' = next_pc

BulkInit ==
    /\ job = "bulk"
    /\ pc = "scan"
    /\ graph = EmptyGraph
    /\ table \in Tables(BulkItems)
    /\ df_products = <<>> /\ df_categories = <<>> /\ df_styles = <<>> /\ pos = 0
    /\ records = <<>> /\ idx = 0
    /\ argv = <<>> /\ products_table_name = Unbound /\ products_file = Unbound
    /\ new_yaml = <<>> /\ stdout = <<>> /\ exit_status = -1

\* DDB extraction and the derived category and style frames.  An empty scan
\* gives a frame without columns, and dropping the unused columns raises KeyError.
BulkScan ==
    /\ job = "bulk" /\ pc = "scan"
    /\ LET items == scan(table).Items
           products == [i \in 1..Len(items) |-> format_row(items[i])]
           categories == drop_duplicates(select(products, {"category"}), {"category"})
           styles == drop_duplicates(select(products, {"style"}), {"style"})
       IN  IF items = <<>> \/ \E i \in 1..Len(items) : format_row_fails(items[i])
           THEN /\ pc' = "failed"
                /\ UNCHANGED bulk_vars
           ELSE /\ df_products' = products
                /\ df_categories' = with_ids(categories, "category_id", 0)
                /\ df_styles' = with_ids(styles, "style_id", Len(categories))
                /\ pos' = 1
                /\ pc' = "products"
    /\ UNCHANGED <<job, graph, table>>
    /\ UNCHANGED sync_vars
    /\ UNCHANGED export_vars

BulkInsertProduct ==
    /\ job = "bulk" /\ pc = "products"
    /\ graph' = insert_product(graph, df_products[pos])
    /\ Advance(Len(df_products), "categories")
    /\ UNCHANGED <<job, table, df_products, df_categories, df_styles>>
    /\ UNCHANGED sync_vars
    /\ UNCHANGED export_vars

BulkInsertCategory ==
    /\ job = "bulk" /\ pc = "categories"
    /\ graph' = insert_named(graph, "category", df_categories[pos].category,
                             df_categories[pos].category_id)
    /\ Advance(Len(df_categories), "styles")
    /\ UNCHANGED <<job, table, df_products, df_categories, df_styles>>
    /\ UNCHANGED sync_vars
    /\ UNCHANGED export_vars

BulkInsertStyle ==
    /\ job = "bulk" /\ pc = "styles"
    /\ graph' = insert_named(graph, "style", df_styles[pos].style, df_styles[pos].style_id)
    /\ Advance(Len(df_styles), "category_style_edges")
    /\ UNCHANGED <<job, table, df_products, df_categories, df_styles>>
    /\ UNCHANGED sync_vars
    /\ UNCHANGED export_vars

BulkAddCategoryStyleEdge ==
    /\ job = "bulk" /\ pc = "category_style_edges"
    /\ LET row == df_edges_category_style[pos]
       IN  graph' = addE(graph, row.category_id, "has", row.style_id)
    /\ Advance(Len(df_edges_category_style), "style_product_edges")
    /\ UNCHANGED <<job, table, df_products, df_categories, df_styles>>
    /\ UNCHANGED sync_vars
    /\ UNCHANGED export_vars

BulkAddStyleProductEdge ==
    /\ job = "bulk" /\ pc = "style_product_edges"
    /\ LET row == df_edges_styles_products[pos]
       IN  graph' = addE(graph, row.style_id, "has", row.id)
    /\ Advance(Len(df_edges_styles_products), "close")
    /\ UNCHANGED <<job, table, df_products, df_categories, df_styles>>
    /\ UNCHANGED sync_vars
    /\ UNCHANGED export_vars

BulkClose ==
    /\ job = "bulk" /\ pc = "close"
    /\ pc' = "done"
    /\ UNCHANGED <<job, graph, table>>
    /\ UNCHANGED bulk_vars
    /\ UNCHANGED sync_vars
    /\ UNCHANGED export_vars

(***************************************************************************)
(* Export Job: sync_ddb_products.py                                        *)
(***************************************************************************)
\* The values boto3 hands out for the attributes of an item, by Python type.
\* A Decimal is coef / 10^scale.
Str(v)          == [t |-> "str", v |-> v]
Dec(coef, scale) == [t |-> "Decimal", v |-> <<coef, scale>>]
Bool(v)         == [t |-> "bool", v |-> v]
List(v)         == [t |-> "list", v |-> v]
Map(v)          == [t |-> "dict", v |-> v]
Null            == [t |-> "NoneType", v |-> <<>>]
\* What the export holds: str as above, int, and float as the normalised decimal
\* fraction <<coef, scale>> of its value.
PyInt(n)            == [t |-> "int", v |-> n]
PyFloat(coef, scale) == [t |-> "float", v |-> <<coef, scale>>]

RECURSIVE Pow10(_)
Pow10(n) == IF n = 0 THEN 1 ELSE 10 * Pow10(n - 1)

\* int(value) of a Decimal: truncation towards zero.
int(d) ==
    LET coef == d.v[1]
        p == Pow10(d.v[2])
    IN  PyInt(IF coef >= 0 THEN coef \div p ELSE -((-coef) \div p))

\* float(value) of a Decimal: the number itself, whatever its trailing zeros.
RECURSIVE float_norm(_, _)
float_norm(coef, scale) ==
    IF scale > 0 /\ coef % 10 = 0 THEN float_norm(coef \div 10, scale - 1)
    ELSE PyFloat(coef, scale)

float(d) == float_norm(d.v[1], d.v[2])

\* value == int(value)
equals_int(d) == d.v[1] = int(d).v * Pow10(d.v[2])

product_dict_int_always(ddb_item) ==
    LET kept == {field \in DOMAIN ddb_item :
                    \/ ddb_item[field].t = "list" /\ field = "image_labels"
                    \/ ddb_item[field].t = "str"
                    \/ ddb_item[field].t = "Decimal"}
    IN  [field \in kept |->
            LET value == ddb_item[field] IN
            IF value.t = "list" /\ field = "image_labels"
            THEN List([i \in 1..Len(value.v) |->
                        [confidence |-> float(value.v[i].confidence),
                         name |-> value.v[i].name]])
            ELSE IF value.t = "str" THEN value
            ELSE int(value)]

\* Builds a dictionary from a product's DynamoDB entry: a field is kept when
\* one of the three branches assigns it.
product_dict(ddb_item) ==
    LET kept == {field \in DOMAIN ddb_item :
                    \/ ddb_item[field].t = "list" /\ field = "image_labels"
                    \/ ddb_item[field].t = "str"
                    \/ ddb_item[field].t = "Decimal"}
    IN  [field \in kept |->
            LET value == ddb_item[field] IN
            IF value.t = "list" /\ field = "image_labels"
            THEN List([i \in 1..Len(value.v) |->
                        [confidence |-> float(value.v[i].confidence),
                         name |-> value.v[i].name]])
            ELSE IF value.t = "str" THEN value
            ELSE IF equals_int(value) THEN int(value)
            ELSE float(value)]

\* The items of the exported table.
ExportItemA ==
    [id |-> Str("p1"), name |-> Str("Trail Shoe"),
     price |-> Dec(105, 1), current_stock |-> Dec(10, 0), weight |-> Dec(1000, 2),
     featured |-> Bool(TRUE),
     image_labels |-> List(<< [name |-> Str("Nike"), confidence |-> Dec(90, 0)],
                              [name |-> Str("RED"), confidence |-> Dec(7525, 2)] >>),
     aliases |-> List(<<Str("a")>>), dimensions |-> Map(<<>>), promoted |-> Null]

ExportItemB ==
    [id |-> Str("p2"), name |-> Str(""),
     price |-> Dec(-105, 1), current_stock |-> Dec(-3, 0), weight |-> Dec(1050, 2),
     featured |-> Bool(FALSE), image_labels |-> Str("none")]

ExportItemC ==
    [id |-> Str("p3"), price |-> Dec(0, 2), discount |-> Dec(-2000, 3),
     image_labels |-> List(<<>>), promoted |-> Null]

ExportItems == {ExportItemA, ExportItemB, ExportItemC}

\* The command line, option by option as getopt reads it.
Option(opt, arg) == [opt |-> opt, arg |-> arg]

ArgTokens ==
    {Option("-h", ""), Option("--products-table-name", "products"),
     Option("--products-file", "out.yaml"), Option("--verbose", "")}

Argvs == UNION {[1..n -> ArgTokens] : n \in 0..MaxArgs}

DefaultProductsFile == "src/products-service/data/products.yaml"

\* getopt.getopt(sys.argv[1:], 'h', ['products-table-name=', 'products-file=']):
\* an option that is not declared raises GetoptError.
getopt_fails(args) ==
    \E i \in 1..Len(args) :
        args[i].opt \notin {"-h", "--products-table-name", "--products-file"}

\* opt in ('--products-table-name'): the parentheses make no tuple, the test is
\* whether opt is a substring.
is_in(opt, s) ==
    \/ opt = s
    \/ <<opt, s>> \in {<<"--products-file", "--products-file-name">>}

\* The loop over opts from the k-th on; st holds the variables it assigns.
RECURSIVE parse_opts(_, _, _)
parse_opts(opts, k, st) ==
    IF k > Len(opts) THEN st
    ELSE IF opts[k].opt = "-h"
         THEN [st EXCEPT !.stdout = Append(@, "Usage"), !.exit_status = 0]
    ELSE IF is_in(opts[k].opt, "--products-table-name")
         THEN parse_opts(opts, k + 1, [st EXCEPT !.products_table_name = opts[k].arg])
    ELSE IF is_in(opts[k].opt, "--products-file-name")
         THEN parse_opts(opts, k + 1, [st EXCEPT !.products_file = opts[k].arg])
    ELSE parse_opts(opts, k + 1, st)

ExportInit ==
    /\ job = "export"
    /\ pc = "getopt"
    /\ argv \in Argvs
    /\ table \in Tables(ExportItems)
    /\ products_table_name = Unbound
    /\ products_file = DefaultProductsFile
    /\ new_yaml = <<>> /\ stdout = <<>> /\ exit_status = -1
    /\ graph = EmptyGraph
    /\ records = <<>> /\ idx = 0
    /\ df_products = <<>> /\ df_categories = <<>> /\ df_styles = <<>> /\ pos = 0

\* Lines 52-65: the options are read; a usage message ends the script.
ExportGetopt ==
    /\ job = "export" /\ pc = "getopt"
    /\ IF getopt_fails(argv)
       THEN /\ stdout' = Append(stdout, "Usage")
            /\ exit_status' = 2
            /\ pc' = "exited"
            /\ UNCHANGED <<products_table_name, products_file>>
       ELSE LET st == parse_opts(argv, 1,
                        [products_table_name |-> products_table_name,
                         products_file |-> products_file,
                         stdout |-> stdout, exit_status |-> exit_status])
            IN  /\ products_table_name' = st.products_table_name
                /\ products_file' = st.products_file
                /\ stdout' = st.stdout
                /\ exit_status' = st.exit_status
                /\ pc' = IF st.exit_status = -1 THEN "scan" ELSE "exited"
    /\ UNCHANGED <<job, graph, table, argv, new_yaml>>
    /\ UNCHANGED sync_vars
    /\ UNCHANGED bulk_vars

\* Lines 67-78: the table is scanned and the file written.  Reading the variable
\* products_table_name before any assignment raises NameError: the traceback
\* goes to stderr and the status is 1.
ExportDump ==
    /\ job = "export" /\ pc = "scan"
    /\ IF products_table_name = Unbound
       THEN /\ exit_status' = 1
            /\ UNCHANGED <<new_yaml, stdout>>
       ELSE LET products == scan(table)
            IN  /\ new_yaml' = [i \in 1..Len(products.Items) |->
                                   product_dict(products.Items[i])]
                /\ stdout' = Append(stdout, "Products updated")
                /\ exit_status' = 0
    /\ pc' = "exited"
    /\ UNCHANGED <<job, graph, table, argv, products_table_name, products_file>>
    /\ UNCHANGED sync_vars
    /\ UNCHANGED bulk_vars

Init == SyncInit \/ BulkInit \/ ExportInit

Next ==
    \/ SyncRecord \/ SyncClose
    \/ BulkScan \/ BulkInsertProduct \/ BulkInsertCategory \/ BulkInsertStyle
    \/ BulkAddCategoryStyleEdge \/ BulkAddStyleProductEdge \/ BulkClose
    \/ ExportGetopt \/ ExportDump

Spec == Init /\ [][Next]_vars

(***************************************************************************)
(* Properties of the Incremental Sync Job.                                 *)
(***************************************************************************)
\* The loop of the sync job has just handled records[idx] without an exception.
SyncHandled == job = "sync" /\ pc = "loop" /\ idx <= Len(records) /\ idx' = idx + 1

\* The lower-cased names of the labels whose confidence is over 75.
Passing(image_labels) ==
    {lower(image_labels[i].name) :
        i \in {j \in 1..Len(image_labels) : image_labels[j].confidence > 75}}

LabelValues(g, id) == Values(g, id, LabelsKey)

\* C1: every event of the batch that is handled causes the mutation of its kind:
\* an insert creates the vertex, a modify leaves every scalar property with the
\* payload's value, a remove leaves no vertex with the identifier; the events are
\* taken one by one in batch order.
C1_EachEventMutatesInOrder ==
    [][SyncHandled =>
        LET record == records[idx]
            id == record.dynamodb.id
        IN  CASE record.eventName = "INSERT" ->
                    id \notin DOMAIN graph.V /\ id \in DOMAIN graph'.V
              [] record.eventName = "MODIFY" ->
                    /\ id \in DOMAIN graph'.V
                    /\ \A k \in 1..Len(ScalarProps) :
                          Values(graph', id, ScalarProps[k][1])
                              = {record.dynamodb[ScalarProps[k][2]]}
              [] record.eventName = "REMOVE" ->
                    id \notin DOMAIN graph'.V]_vars

\* C2: after a REMOVE event for identifier X is handled the graph holds no vertex X,
\* and every other vertex is as it was.
C2_RemoveDeletesExactlyThatVertex ==
    [][(SyncHandled /\ records[idx].eventName = "REMOVE") =>
        LET id == records[idx].dynamodb.id
        IN  /\ id \notin DOMAIN graph'.V
            /\ \A other \in DOMAIN graph.V \ {id} :
                  other \in DOMAIN graph'.V /\ graph'.V[other] = graph.V[other]]_vars

\* The step a record's labels are filtered in, and what it does to the label values.
FiltersLabels(id, image_labels) ==
    \A n \in {lower(name) : name \in LabelNames} :
        (n \in LabelValues(graph', id) /\ n \notin LabelValues(graph, id))
        <=> (n \notin LabelValues(graph, id) /\ n \in Passing(image_labels))

\* C3: on a sync insert or modify and on a bulk-load product insert, a lower-cased
\* label name becomes a value of labels_confidence_gt_75 if and only if an entry of
\* the record with that name has confidence strictly greater than 75.
C3_LabelFiltering ==
    [][/\ (SyncHandled /\ records[idx].eventName \in {"INSERT", "MODIFY"})
            => FiltersLabels(records[idx].dynamodb.id, records[idx].dynamodb.image_labels)
       /\ (job = "bulk" /\ pc = "products")
            => FiltersLabels(df_products[pos].id, df_products[pos].image_labels)]_vars

\* An insert whose payload holds a label at 76 and one at exactly 75 was handled:
\* the vertex holds the first and not the second.
C3_Witness ==
    /\ job = "sync" /\ idx > 1
    /\ records[idx - 1].eventName = "INSERT"
    /\ records[idx - 1].dynamodb.image_labels = LabelsB
    /\ LabelValues(graph, records[idx - 1].dynamodb.id) = {"red"}

\* C6: a record whose mutation fails (a modify of an identifier without a vertex,
\* an insert of an identifier in use, a payload without the columns to drop) ends
\* the invocation with the failure: the graph is left as it is, the loop does not
\* move on, and no step follows.
C6_FailureAbortsBatch ==
    [][job = "sync" =>
        /\ pc # "failed"
        /\ (pc = "loop" /\ idx <= Len(records)
            /\ LET record == records[idx] IN
               \/ record.eventName = "MODIFY" /\ record.dynamodb.id \notin DOMAIN graph.V
               \/ record.eventName = "INSERT" /\ record.dynamodb.id \in DOMAIN graph.V
               \/ record.eventName \in {"INSERT", "MODIFY"}
                  /\ ~(UnusedColumns \subseteq DOMAIN record.dynamodb))
           => (pc' = "failed" /\ graph' = graph /\ idx' = idx)]_vars

\* A modify without a vertex failed, and an insert that would have succeeded follows it.
C6_Witness ==
    /\ job = "sync" /\ pc = "failed" /\ idx < Len(records)
    /\ records[idx].eventName = "MODIFY"
    /\ records[idx].dynamodb.id \notin DOMAIN graph.V
    /\ records[idx + 1].eventName = "INSERT"
    /\ UnusedColumns \subseteq DOMAIN records[idx + 1].dynamodb
    /\ records[idx + 1].dynamodb.id \notin DOMAIN graph.V

\* C7: right after an insert and then a modify of one identifier, the vertex of that
\* identifier holds, for each of the nine scalar properties, the modify payload's value.
C7_ModifyOverwritesScalars ==
    \A k \in 1..(Len(records) - 1) :
        (/\ job = "sync" /\ idx = k + 2
         /\ records[k].eventName = "INSERT" /\ records[k + 1].eventName = "MODIFY"
         /\ records[k].dynamodb.id = records[k + 1].dynamodb.id)
        => /\ records[k].dynamodb.id \in DOMAIN graph.V
           /\ \A j \in 1..Len(ScalarProps) :
                 Values(graph, records[k].dynamodb.id, ScalarProps[j][1])
                     = {records[k + 1].dynamodb[ScalarProps[j][2]]}

VerticesLabelled(label) == {id \in DOMAIN graph.V : graph.V[id].label = label}

EdgesBetween(outs, ins) ==
    {e \in 1..Len(graph.E) :
        graph.E[e].out \in outs /\ graph.E[e].in \in ins /\ graph.E[e].label = "has"}

ScannedCategories == {df_products[i].category : i \in 1..Len(df_products)}
ScannedStyles     == {df_products[i].style : i \in 1..Len(df_products)}
ScannedCategoryStyles ==
    {<<df_products[i].category, df_products[i].style>> : i \in 1..Len(df_products)}
ScannedStyleProducts ==
    {<<df_products[i].style, df_products[i].id>> : i \in 1..Len(df_products)}

\* C4: when the load is done there is exactly one category vertex per distinct
\* category and one style vertex per distinct style of the scanned products and no
\* other vertex besides the products'; exactly one edge from the category's vertex
\* to the style's for each (category, style) pair some product has and none for any
\* other pair; exactly one edge from the style's vertex to the product's for each
\* (style, product) pair; and no other edge.
C4_BulkLoadCounts ==
    (job = "bulk" /\ pc = "done") =>
        LET cat(c) == VerticesLabelled("category::" \o c)
            sty(s) == VerticesLabelled("style::" \o s)
        IN  /\ \A c \in ScannedCategories : Cardinality(cat(c)) = 1
            /\ \A s \in ScannedStyles : Cardinality(sty(s)) = 1
            /\ Cardinality(DOMAIN graph.V) =
                  Len(df_products) + Cardinality(ScannedCategories)
                                   + Cardinality(ScannedStyles)
            /\ \A c \in Categories, s \in Styles :
                  Cardinality(EdgesBetween(cat(c), sty(s))) =
                      IF <<c, s>> \in ScannedCategoryStyles THEN 1 ELSE 0
            /\ \A s \in Styles, id \in BulkIds :
                  Cardinality(EdgesBetween(sty(s), {id})) =
                      IF <<s, id>> \in ScannedStyleProducts THEN 1 ELSE 0
            /\ Len(graph.E) = Cardinality(ScannedCategoryStyles)
                                + Cardinality(ScannedStyleProducts)

\* Three products over two categories and two styles, two of them with the same
\* category and style: fewer edges than products and than categories x styles.
C4_Witness ==
    /\ job = "bulk" /\ pc = "done"
    /\ Len(df_products) = 3
    /\ Cardinality(ScannedCategories) = 2 /\ Cardinality(ScannedStyles) = 2
    /\ Cardinality(ScannedCategoryStyles) = 2
    /\ Len(graph.E) = 5

\* C5: the job reads every page of the table: when the load is done every record
\* of the table has its product vertex, and a written export holds an entry for
\* every record of the table.
C5_EveryPageRead ==
    /\ (job = "bulk" /\ pc = "done") =>
          \A i \in 1..Len(AllRecords(table)) :
              AllRecords(table)[i].id \in VerticesLabelled("product")
    /\ (job = "export" /\ "Products updated" \in Range(stdout)) =>
          Len(new_yaml) = Len(AllRecords(table))

(***************************************************************************)
(* Properties of the Export Job.                                           *)
(***************************************************************************)
\* The output file was written (the line after the dump was printed).
Exported == job = "export" /\ "Products updated" \in Range(stdout)

\* The export entry `out` normalises field `field` of `item` as the contract says.
Normalised(item, out, field) ==
    LET value == item[field] IN
    CASE value.t = "str" ->
            field \in DOMAIN out /\ out[field] = value
      [] value.t = "Decimal" ->
            /\ field \in DOMAIN out
            /\ IF value.v[1] % Pow10(value.v[2]) = 0
               THEN out[field].t = "int"
                    /\ out[field].v * Pow10(value.v[2]) = value.v[1]
               ELSE out[field].t = "float"
                    /\ out[field].v[1] * Pow10(value.v[2])
                          = value.v[1] * Pow10(out[field].v[2])
      [] value.t = "list" /\ field = "image_labels" ->
            /\ field \in DOMAIN out
            /\ out[field].t = "list"
            /\ Len(out[field].v) = Len(value.v)
            /\ \A i \in 1..Len(value.v) :
                  /\ out[field].v[i].name = value.v[i].name
                  /\ out[field].v[i].confidence.t = "float"
                  /\ out[field].v[i].confidence.v[1] * Pow10(value.v[i].confidence.v[2])
                        = value.v[i].confidence.v[1]
                              * Pow10(out[field].v[i].confidence.v[2])
      [] OTHER -> field \notin DOMAIN out

\* C8: every exported entry holds each string field unchanged, each decimal field as
\* an integer when it has no fractional part and as a float of the same value
\* otherwise, image_labels with the names unchanged and the confidences as floats,
\* and no field of any other type.
C8_FieldNormalization ==
    Exported =>
        \A i \in 1..Len(new_yaml) :
            /\ DOMAIN new_yaml[i] \subseteq DOMAIN table[1][i]
            /\ \A field \in DOMAIN table[1][i] :
                  Normalised(table[1][i], new_yaml[i], field)

\* An entry was exported with an integer, a float, and fewer fields than its record.
C8_Witness ==
    /\ Exported
    /\ \E i \in 1..Len(new_yaml) :
          /\ table[1][i] = ExportItemA
          /\ new_yaml[i].current_stock = PyInt(10)
          /\ new_yaml[i].weight = PyInt(10)
          /\ new_yaml[i].price = PyFloat(105, 1)
          /\ DOMAIN new_yaml[i] # DOMAIN table[1][i]

\* C9: an invocation without --products-table-name, or with arguments getopt
\* rejects, that asks for no help ends with a usage message and a non-zero status,
\* and nothing is exported.
C9_MissingTableNameReportsUsage ==
    (/\ job = "export" /\ pc = "exited"
     /\ \A i \in 1..Len(argv) : argv[i].opt # "-h"
     /\ \/ \A i \in 1..Len(argv) : argv[i].opt # "--products-table-name"
        \/ \E i \in 1..Len(argv) :
              argv[i].opt \notin {"--products-table-name", "--products-file"})
    => /\ "Usage" \in Range(stdout)
       /\ exit_status # 0
       /\ ~Exported

====
